---- MODULE Spec2Model ----
(***************************************************************************)
(* dock-batch-updater: the batch orchestrator (core/batch_processor.py),   *)
(* the backup namer and the replacement engine (core/docx_processor.py).   *)
(*                                                                         *)
(* Texts are sequences of one-character strings; a paragraph is a sequence *)
(* of runs (texts); a document is a sequence of top-level paragraphs.      *)
(* The backup directory is a POSIX directory: names linked to inodes.      *)
(***************************************************************************)
EXTENDS Integers, Sequences, FiniteSets, TLC

VARIABLES
    paths,          \* file_paths argument of process_documents
    createBackup,   \* create_backup argument of process_documents
    mainPc,         \* position of the thread that calls process_documents
    stopEvent,      \* BatchProcessor._stop_event
    results,        \* BatchProcessor.results
    processedCount, \* local processed_count of process_documents
    totalFiles,     \* local total_files of process_documents
    collected,      \* tasks whose future the loop has taken and reported
    progressLog,    \* arguments of the progress_callback invocations, in order
    resultLog,      \* arguments of the result_callback invocations, in order
    task,           \* one record per submitted task / per create_backup caller
    files,          \* document files: path -> content
    bdir,           \* backup directory: name -> inode number, 0 when absent
    inodes,         \* inode number -> file content (see PartialFile, CompleteFile)
    call,           \* one call of DocxProcessor.replace_text (see NewCall)
    proc            \* a DocxProcessor used on its own (see NewProcessor)

vars == <<paths, createBackup, mainPc, stopEvent, results, processedCount,
          totalFiles, collected, progressLog, resultLog, task, files, bdir,
          inodes, call, proc>>

\* what the tasks of the pool and the callers of create_backup leave alone
mainVars == <<paths, createBackup, mainPc, stopEvent, results, processedCount,
              totalFiles, collected, progressLog, resultLog, call, proc>>

(***************************************************************************)
(* Bounds of the model.                                                    *)
(***************************************************************************)
\* longest file_paths list given to process_documents
MaxPaths == 2
\* number of distinct values uuid4().hex[:8] is drawn from
NumUids == 2
\* number of direct create_backup invocations in SpecBackup
NumInvocations == 2

Uids == 1..NumUids

(***************************************************************************)
(* Generic helpers on sequences.                                           *)
(***************************************************************************)
Range(s) == {s[i] : i \in 1..Len(s)}

SeqsUpTo(S, n) == UNION {[1..k -> S] : k \in 0..n}

RECURSIVE Concat(_)
Concat(ss) == IF ss = <<>> THEN <<>> ELSE Head(ss) \o Concat(Tail(ss))

Min2(a, b) == IF a < b THEN a ELSE b

(***************************************************************************)
(* The paths of the model and what the filesystem says about each.         *)
(*   A  dA/report.docx    a well-formed document                           *)
(*   B  d-B/report.docx   a well-formed document, same base name as A      *)
(*   M  g/missing.docx    does not exist                                   *)
(*   L  dA/locked.docx    exists, not readable                             *)
(*   T  dA/notes.txt      exists and readable, not a .docx container       *)
(***************************************************************************)
Paths == {"A", "B", "M", "L", "T"}

PathInfo ==
    [p \in Paths |->
        CASE p = "A" -> [dir |-> <<"d", "A">>, stem |-> "report", ext |-> ".docx",
                         exists |-> TRUE, readable |-> TRUE, container |-> TRUE]
          [] p = "B" -> [dir |-> <<"d", "-", "B">>, stem |-> "report", ext |-> ".docx",
                         exists |-> TRUE, readable |-> TRUE, container |-> TRUE]
          [] p = "M" -> [dir |-> <<"g">>, stem |-> "missing", ext |-> ".docx",
                         exists |-> FALSE, readable |-> FALSE, container |-> FALSE]
          [] p = "L" -> [dir |-> <<"d", "A">>, stem |-> "locked", ext |-> ".docx",
                         exists |-> TRUE, readable |-> FALSE, container |-> TRUE]
          [] p = "T" -> [dir |-> <<"d", "A">>, stem |-> "notes", ext |-> ".txt",
                         exists |-> TRUE, readable |-> TRUE, container |-> FALSE]]

\* DocxProcessor.is_docx_file: extension, existence, readable archive with
\* the required entries.
is_docx_file(p) ==
    /\ PathInfo[p].ext = ".docx"
    /\ PathInfo[p].exists
    /\ PathInfo[p].container

\* BatchProcessor._validate_files: the sub-list of the paths that exist, are
\* readable and are .docx containers, in input order, repetitions kept.
FileIsValid(p) == PathInfo[p].exists /\ PathInfo[p].readable /\ is_docx_file(p)

validate_files(file_paths) == SelectSeq(file_paths, FileIsValid)

\* invalid_files = set(file_paths) - set(valid_files)
invalid_files(file_paths) == Range(file_paths) \ Range(validate_files(file_paths))

(***************************************************************************)
(* Backup names (create_backup, lines 75-94).                              *)
(***************************************************************************)
\* characters re.sub keeps: [0-9A-Za-z_] and CJK; the model's alphabet
WordChars == {"d", "g", "A", "B", "_"}

\* re.sub(r"[^0-9A-Za-z_...]+", "_", s): every maximal run of other
\* characters becomes one underscore
RECURSIVE ReSub(_, _)
ReSub(s, inRun) ==
    IF s = <<>> THEN <<>>
    ELSE IF Head(s) \in WordChars THEN <<Head(s)>> \o ReSub(Tail(s), FALSE)
    ELSE IF inRun THEN ReSub(Tail(s), TRUE)
    ELSE <<"_">> \o ReSub(Tail(s), TRUE)

\* str.strip("_")
RECURSIVE LStrip(_)
LStrip(s) == IF s # <<>> /\ Head(s) = "_" THEN LStrip(Tail(s)) ELSE s

RECURSIVE RStrip(_)
RStrip(s) ==
    IF s # <<>> /\ s[Len(s)] = "_" THEN RStrip(SubSeq(s, 1, Len(s) - 1)) ELSE s

HintMaxLen == 20

\* parent_dir of create_backup: sanitised, "_root_" when empty, cut to 20
ParentHint(p) ==
    LET raw == IF PathInfo[p].dir = <<>> THEN <<"_", "r", "_">> ELSE PathInfo[p].dir
        cleaned == RStrip(LStrip(ReSub(raw, FALSE)))
        named == IF cleaned = <<>> THEN <<"_", "r", "_">> ELSE cleaned
    IN  SubSeq(named, 1, Min2(Len(named), HintMaxLen))

\* path_hash6: the first six hex digits of sha256 of the absolute path; a
\* table over the model's paths
PathHash6(p) ==
    CASE p = "A" -> "h1" [] p = "B" -> "h2" [] p = "M" -> "h3"
      [] p = "L" -> "h4" [] p = "T" -> "h5"

\* backup_name = f"{name}_backup_{parent_dir}_{path_hash6}_{uid8}{ext}"
BackupName(p, uid) ==
    <<"final", PathInfo[p].stem, ParentHint(p), PathHash6(p), uid, PathInfo[p].ext>>

\* tmp_name = f".{backup_name}.tmp"
TmpName(p, uid) ==
    <<"tmp", PathInfo[p].stem, ParentHint(p), PathHash6(p), uid, PathInfo[p].ext>>

ValidPaths == {p \in Paths : FileIsValid(p)}

BackupNames == {BackupName(p, u) : p \in ValidPaths, u \in Uids}
TmpNames == {TmpName(p, u) : p \in ValidPaths, u \in Uids}
DirNames == BackupNames \cup TmpNames

\* backup_path "" of a result that carries no backup
NoPath == <<>>

(***************************************************************************)
(* Replacement engine (DocxProcessor._replace_in_paragraph, replace_text). *)
(***************************************************************************)
\* paragraph.text: the concatenation of the run texts
ParagraphText(runs) == Concat(runs)

\* str.find(sub, start), 0-based; -1 when there is no occurrence
Find(text, sub, start) ==
    LET hits == {i \in start..(Len(text) - Len(sub)) :
                    SubSeq(text, i + 1, i + Len(sub)) = sub}
    IN  IF hits = {} THEN -1 ELSE CHOOSE i \in hits : \A j \in hits : i <= j

\* the for loop over paragraph.runs (lines 228-247): start and end run of
\* the span [start_pos, end_pos); run index 0 stands for None
RECURSIVE LocateRuns(_, _, _, _, _, _, _)
LocateRuns(runs, idx, current_pos, start_pos, end_pos, s_idx, s_off) ==
    IF idx > Len(runs)
    THEN [start_run_idx |-> s_idx, start_offset |-> s_off,
          end_run_idx |-> 0, end_offset |-> 0]
    ELSE LET run_end == current_pos + Len(runs[idx])
             hit == s_idx = 0 /\ start_pos < run_end
             ns == IF hit THEN idx ELSE s_idx
             nso == IF hit THEN start_pos - current_pos ELSE s_off
         IN  IF end_pos <= run_end
             THEN [start_run_idx |-> ns, start_offset |-> nso,
                   end_run_idx |-> idx, end_offset |-> end_pos - current_pos]
             ELSE LocateRuns(runs, idx + 1, run_end, start_pos, end_pos, ns, nso)

\* lines 252-261 without the loop of lines 264-265: the later runs of the
\* match keep their text
SpliceRuns_keeps_later(runs, loc, replace_with) ==
    LET s == loc.start_run_idx
        e == loc.end_run_idx
        new_text == SubSeq(runs[s], 1, loc.start_offset)
                        \o replace_with
                        \o SubSeq(runs[e], loc.end_offset + 1, Len(runs[e]))
    IN  [i \in 1..Len(runs) |-> IF i = s THEN new_text ELSE runs[i]]

\* lines 252-265: the start run gets prefix + replacement + suffix of the
\* end run; the runs after it up to the end run are emptied
SpliceRuns(runs, loc, replace_with) ==
    LET s == loc.start_run_idx
        e == loc.end_run_idx
        new_text == SubSeq(runs[s], 1, loc.start_offset)
                        \o replace_with
                        \o SubSeq(runs[e], loc.end_offset + 1, Len(runs[e]))
    IN  [i \in 1..Len(runs) |->
            IF i = s THEN new_text
            ELSE IF i > s /\ i <= e THEN <<>>
            ELSE runs[i]]

\* iterations of the while loop the model follows before giving up
LoopFuel == 6

\* the while loop of _replace_in_paragraph (lines 219-268)
RECURSIVE ReplaceLoop(_, _, _, _, _, _)
ReplaceLoop(runs, search_text, replace_with, count, search_start, fuel) ==
    LET match_index == Find(ParagraphText(runs), search_text, search_start)
        loc == LocateRuns(runs, 1, 0, match_index,
                          match_index + Len(search_text), 0, 0)
    IN  IF match_index = -1 \/ loc.start_run_idx = 0 \/ loc.end_run_idx = 0
        THEN [runs |-> runs, count |-> count, finished |-> TRUE]
        ELSE IF fuel = 0
        THEN [runs |-> runs, count |-> count, finished |-> FALSE]
        ELSE ReplaceLoop(SpliceRuns(runs, loc, replace_with), search_text,
                         replace_with, count + 1,
                         match_index + Len(replace_with), fuel - 1)

\* _replace_in_paragraph: nothing to do when the search text does not occur
replace_in_paragraph(runs, search_text, replace_with) ==
    IF Find(ParagraphText(runs), search_text, 0) = -1
    THEN [runs |-> runs, count |-> 0, finished |-> TRUE]
    ELSE ReplaceLoop(runs, search_text, replace_with, 0, 0, LoopFuel)

\* replace_text over the top-level paragraphs of a document: the new
\* document and self.replacement_count
RECURSIVE replace_text(_, _, _)
replace_text(document, search_text, replace_with) ==
    IF document = <<>> THEN [doc |-> <<>>, count |-> 0]
    ELSE LET first == replace_in_paragraph(Head(document), search_text, replace_with)
             rest == replace_text(Tail(document), search_text, replace_with)
         IN  [doc |-> <<first.runs>> \o rest.doc, count |-> first.count + rest.count]

\* the rule loop taking the rules from the last to the first
RECURSIVE ApplyRules_reversed(_, _)
ApplyRules_reversed(document, rules) ==
    IF rules = <<>> THEN [doc |-> document, count |-> 0]
    ELSE LET one == replace_text(document, rules[Len(rules)][1],
                                 rules[Len(rules)][2])
             rest == ApplyRules_reversed(one.doc, SubSeq(rules, 1, Len(rules) - 1))
         IN  [doc |-> rest.doc, count |-> one.count + rest.count]

\* the rule loop of _process_single_file (lines 215-218): the rules in
\* order, each on the document the earlier ones produced
RECURSIVE ApplyRules(_, _)
ApplyRules(document, rules) ==
    IF rules = <<>> THEN [doc |-> document, count |-> 0]
    ELSE LET one == replace_text(document, Head(rules)[1], Head(rules)[2])
             rest == ApplyRules(one.doc, Tail(rules))
         IN  [doc |-> rest.doc, count |-> one.count + rest.count]

\* the replacements argument of process_documents in the model
Rules == << <<(<<"a", "b">>), <<"c">>>>, <<(<<"c">>), <<"d", "d">>>> >>

\* the documents on disk before the batch
InitialContent(p) ==
    IF p = "A" THEN << <<(<<"x", "a">>), <<"b", "a", "b">>>>, <<(<<"c">>)>> >>
    ELSE << <<(<<"a", "b">>)>> >>

\* the documents a task of the model can load: those on disk before the
\* batch and what the rule loop makes of them, once per task of the batch
RECURSIVE DocsWithin(_)
DocsWithin(n) ==
    IF n = 0 THEN {InitialContent(p) : p \in ValidPaths}
    ELSE LET before == DocsWithin(n - 1)
         IN  before \cup {ApplyRules(d, Rules).doc : d \in before}

\* the rule loop, tabulated over those documents
RulesApplied == [d \in DocsWithin(MaxPaths) |-> ApplyRules(d, Rules)]

(***************************************************************************)
(* Results and tasks.                                                      *)
(***************************************************************************)
\* ProcessingResult(file_path, success, message, replacements, backup_path)
ProcessingResult(file_path, success, message, replacements, backup_path) ==
    [file_path |-> file_path, success |-> success, message |-> message,
     replacements |-> replacements, backup_path |-> backup_path]

\* no result yet
NoResult == ProcessingResult("", FALSE, "none", 0, NoPath)

\* what a step of a task has done so far: "none", "ok", "fail"
NoSteps == [load |-> "none", validate |-> "none", backup |-> "none",
            replace |-> "none", save |-> "none"]

\* A task of the pool, or a direct caller of create_backup.
\*   pc       where the task is        doc      the loaded document
\*   uid      uid8 of this attempt     h        inode copy2 is writing
\*   bk       backup_path returned by create_backup, NoPath before
\*   exc      an exception is propagating out of create_backup
\*   total    total_replacements       res      the result the task returned
\*   sawStop  what the cancellation check read (history)
\*   inFlight the task was past its check when stop() was called (history)
\*   own      its own steps' outcomes (history)
NewTask(p, start) ==
    [path |-> p, pc |-> start, loaded |-> FALSE, doc |-> <<>>, uid |-> 0,
     h |-> 0, bk |-> NoPath, exc |-> FALSE, total |-> 0, res |-> NoResult,
     sawStop |-> FALSE, inFlight |-> FALSE, own |-> NoSteps]

Tasks == 1..Len(task)

\* create_backup is called directly, not through process_documents
Direct == mainPc = "direct"

(***************************************************************************)
(* create_backup (docx_processor.py lines 56-126), one attempt of the loop.*)
(* os.replace never raises FileExistsError: it replaces an existing        *)
(* destination, so the handler of lines 108-114 and the RuntimeError of    *)
(* line 126 are not reachable and the loop body runs once.                 *)
(***************************************************************************)
\* a file shutil.copy2 has opened for writing and not finished
PartialFile == [complete |-> FALSE, data |-> <<>>]

\* a file that holds all the bytes of a document
CompleteFile(content) == [complete |-> TRUE, data |-> content]

\* lines 88-101: draw uid8, compose the names, remove a stale temp file
BackupBegin(t) ==
    /\ task[t].pc = "bk_begin"
    /\ \E u \in Uids :
        /\ task' = [task EXCEPT ![t].uid = u, ![t].pc = "bk_copy"]
        /\ bdir' = [bdir EXCEPT ![TmpName(task[t].path, u)] = 0]
    /\ UNCHANGED <<mainVars, files, inodes>>

\* line 103, shutil.copy2 opening the destination for writing: the temp
\* name is created, or the file already linked there is truncated
CopyOpen(t) ==
    /\ task[t].pc = "bk_copy"
    /\ LET tmp == TmpName(task[t].path, task[t].uid)
       IN  IF bdir[tmp] = 0
           THEN /\ inodes' = Append(inodes, PartialFile)
                /\ bdir' = [bdir EXCEPT ![tmp] = Len(inodes) + 1]
                /\ task' = [task EXCEPT ![t].h = Len(inodes) + 1, ![t].pc = "bk_write"]
           ELSE /\ inodes' = [inodes EXCEPT ![bdir[tmp]] = PartialFile]
                /\ bdir' = bdir
                /\ task' = [task EXCEPT ![t].h = bdir[tmp], ![t].pc = "bk_write"]
    /\ UNCHANGED <<mainVars, files>>

\* line 103, shutil.copy2 finishing: the source's bytes are in the file it
\* opened
CopyFinish(t) ==
    /\ task[t].pc = "bk_write"
    /\ inodes' = [inodes EXCEPT ![task[t].h] = CompleteFile(files[task[t].path])]
    /\ task' = [task EXCEPT ![t].pc = "bk_replace"]
    /\ UNCHANGED <<mainVars, files, bdir>>

\* line 103, shutil.copy2 raising OSError (no space, I/O error): the
\* exception leaves through the finally block
CopyFault(t) ==
    /\ task[t].pc = "bk_write"
    /\ task' = [task EXCEPT ![t].exc = TRUE, ![t].pc = "bk_finally"]
    /\ UNCHANGED <<mainVars, files, bdir, inodes>>

\* line 107, os.replace(tmp_path, backup_path): the temp file takes the final
\* name, replacing a file already there; lines 116-117 record the path
ReplaceIntoPlace(t) ==
    /\ task[t].pc = "bk_replace"
    /\ LET tmp == TmpName(task[t].path, task[t].uid)
           final == BackupName(task[t].path, task[t].uid)
       IN  /\ bdir[tmp] # 0
           /\ bdir' = [bdir EXCEPT ![final] = bdir[tmp], ![tmp] = 0]
           /\ task' = [task EXCEPT ![t].bk = final, ![t].pc = "bk_finally"]
    /\ UNCHANGED <<mainVars, files, inodes>>

\* line 107, os.replace raising FileNotFoundError: another caller using the
\* same temp name has removed or renamed the temp file
ReplaceMissing(t) ==
    /\ task[t].pc = "bk_replace"
    /\ bdir[TmpName(task[t].path, task[t].uid)] = 0
    /\ task' = [task EXCEPT ![t].exc = TRUE, ![t].pc = "bk_finally"]
    /\ UNCHANGED <<mainVars, files, bdir, inodes>>

\* lines 118-124 without the removal of the temp file
BackupFinally_keeps_temp(t) ==
    /\ task[t].pc = "bk_finally"
    /\ bdir' = bdir
    /\ task' = IF Direct
               THEN [task EXCEPT ![t].pc = "done", ![t].uid = 0, ![t].h = 0,
                                 ![t].own.backup = IF task[t].exc THEN "fail" ELSE "ok"]
               ELSE IF task[t].exc
               THEN [task EXCEPT
                        ![t].res = ProcessingResult(task[t].path, FALSE, "Error", 0, NoPath),
                        ![t].pc = "done", ![t].own.backup = "fail",
                        ![t].loaded = FALSE, ![t].doc = <<>>, ![t].uid = 0,
                        ![t].h = 0, ![t].exc = FALSE]
               ELSE [task EXCEPT ![t].pc = "replace", ![t].own.backup = "ok",
                                 ![t].uid = 0, ![t].h = 0]
    /\ UNCHANGED <<mainVars, files, inodes>>

\* lines 118-124, the finally block: whatever is linked under the temp name
\* is removed; then create_backup returns the path (line 117) or the
\* exception leaves. A direct caller is done; a task goes on (line 214) or
\* its handler returns the error result (lines 237-242).
BackupFinally(t) ==
    /\ task[t].pc = "bk_finally"
    /\ bdir' = [bdir EXCEPT ![TmpName(task[t].path, task[t].uid)] = 0]
    /\ task' = IF Direct
               THEN [task EXCEPT ![t].pc = "done", ![t].uid = 0, ![t].h = 0,
                                 ![t].own.backup = IF task[t].exc THEN "fail" ELSE "ok"]
               ELSE IF task[t].exc
               THEN [task EXCEPT
                        ![t].res = ProcessingResult(task[t].path, FALSE, "Error", 0, NoPath),
                        ![t].pc = "done", ![t].own.backup = "fail",
                        ![t].loaded = FALSE, ![t].doc = <<>>, ![t].uid = 0,
                        ![t].h = 0, ![t].exc = FALSE]
               ELSE [task EXCEPT ![t].pc = "replace", ![t].own.backup = "ok",
                                 ![t].uid = 0, ![t].h = 0]
    /\ UNCHANGED <<mainVars, files, inodes>>

(***************************************************************************)
(* process_documents (batch_processor.py lines 70-161): the calling thread.*)
(* Both callbacks are given and return normally.                           *)
(***************************************************************************)
\* BatchProcessor(max_workers=2)
max_workers == 2

InvalidMessage == "Invalid or unreadable DOCX file"

\* invalid paths not reported yet (the for loop of line 100 runs over a set,
\* in no particular order)
UnreportedInvalid ==
    invalid_files(paths) \ {results[i].file_path : i \in 1..Len(results)}

\* a call that leaves the stop event as it finds it
Call_keeps_stop_event ==
    /\ mainPc = "idle"
    /\ results' = <<>>
    /\ mainPc' = "report"
    /\ UNCHANGED <<call, proc, paths, createBackup, stopEvent, processedCount,
                   totalFiles, collected, progressLog, resultLog, task, files,
                   bdir, inodes>>

\* lines 92-97: reset the per-call state, validate the paths
Call ==
    /\ mainPc = "idle"
    /\ results' = <<>>
    /\ stopEvent' = FALSE
    /\ mainPc' = "report"
    /\ UNCHANGED <<call, proc, paths, createBackup, processedCount, totalFiles, collected,
                   progressLog, resultLog, task, files, bdir, inodes>>

\* lines 100-108: one failed result per invalid path, given to
\* result_callback
ReportInvalid(p) ==
    /\ mainPc = "report"
    /\ p \in UnreportedInvalid
    /\ LET result == ProcessingResult(p, FALSE, InvalidMessage, 0, NoPath)
       IN  /\ results' = Append(results, result)
           /\ resultLog' = Append(resultLog, result)
    /\ UNCHANGED <<call, proc, paths, createBackup, mainPc, stopEvent, processedCount,
                   totalFiles, collected, progressLog, task, files, bdir, inodes>>

\* line 110 with the total taken from the input list
total_files_of_input(file_paths, valid_files) == Len(file_paths)

\* line 110
total_files(file_paths, valid_files) == Len(valid_files)

\* lines 110-125: one task per valid path, in input order
Submit ==
    /\ mainPc = "report"
    /\ UnreportedInvalid = {}
    /\ LET valid_files == validate_files(paths)
       IN  /\ totalFiles' = total_files(paths, valid_files)
           /\ task' = [i \in 1..Len(valid_files) |-> NewTask(valid_files[i], "queued")]
    /\ processedCount' = 0
    /\ mainPc' = "collect"
    /\ UNCHANGED <<call, proc, paths, createBackup, stopEvent, results, collected,
                   progressLog, resultLog, files, bdir, inodes>>

\* lines 128-143 with the count reported before it is incremented
Collect_stale_count(t) ==
    /\ mainPc = "collect"
    /\ task[t].pc = "done"
    /\ t \notin collected
    /\ ~stopEvent
    /\ collected' = collected \cup {t}
    /\ results' = Append(results, task[t].res)
    /\ processedCount' = processedCount + 1
    /\ resultLog' = Append(resultLog, task[t].res)
    /\ progressLog' = Append(progressLog, <<processedCount, totalFiles>>)
    /\ UNCHANGED <<call, proc, paths, createBackup, mainPc, stopEvent, totalFiles, task,
                   files, bdir, inodes>>

\* lines 128-143 with a failed result ending the loop
Collect_abort_on_failure(t) ==
    /\ mainPc = "collect"
    /\ task[t].pc = "done"
    /\ t \notin collected
    /\ ~stopEvent
    /\ IF task[t].res.success
       THEN /\ collected' = collected \cup {t}
            /\ results' = Append(results, task[t].res)
            /\ processedCount' = processedCount + 1
            /\ resultLog' = Append(resultLog, task[t].res)
            /\ progressLog' = Append(progressLog, <<processedCount + 1, totalFiles>>)
            /\ mainPc' = mainPc
       ELSE /\ mainPc' = "shutdown"
            /\ UNCHANGED <<collected, results, processedCount, resultLog,
                           progressLog>>
    /\ UNCHANGED <<call, proc, paths, createBackup, stopEvent, totalFiles, task, files,
                   bdir, inodes>>

\* lines 128-143: as_completed hands over a finished future; its result is
\* appended and reported, the count incremented and reported
Collect(t) ==
    /\ mainPc = "collect"
    /\ task[t].pc = "done"
    /\ t \notin collected
    /\ ~stopEvent
    /\ collected' = collected \cup {t}
    /\ results' = Append(results, task[t].res)
    /\ processedCount' = processedCount + 1
    /\ resultLog' = Append(resultLog, task[t].res)
    /\ progressLog' = Append(progressLog, <<processedCount + 1, totalFiles>>)
    /\ UNCHANGED <<call, proc, paths, createBackup, mainPc, stopEvent, totalFiles, task,
                   files, bdir, inodes>>

\* lines 128-130: as_completed hands over a finished future, the stop event
\* is set and the loop is left
CollectBreak(t) ==
    /\ mainPc = "collect"
    /\ task[t].pc = "done"
    /\ t \notin collected
    /\ stopEvent
    /\ mainPc' = "shutdown"
    /\ UNCHANGED <<call, proc, paths, createBackup, stopEvent, results, processedCount,
                   totalFiles, collected, progressLog, resultLog, task, files,
                   bdir, inodes>>

\* line 128: as_completed is exhausted
LoopEnd ==
    /\ mainPc = "collect"
    /\ collected = Tasks
    /\ mainPc' = "shutdown"
    /\ UNCHANGED <<call, proc, paths, createBackup, stopEvent, results, processedCount,
                   totalFiles, collected, progressLog, resultLog, task, files,
                   bdir, inodes>>

\* leaving the with block without waiting for the tasks of the pool
Return_without_wait ==
    /\ mainPc = "shutdown"
    /\ mainPc' = "returned"
    /\ UNCHANGED <<call, proc, paths, createBackup, stopEvent, results, processedCount,
                   totalFiles, collected, progressLog, resultLog, task, files,
                   bdir, inodes>>

\* lines 114 and 161: leaving the with block waits for every task of the
\* pool (shutdown(wait=True)), then the results are returned
Return ==
    /\ mainPc = "shutdown"
    /\ \A t \in Tasks : task[t].pc = "done"
    /\ mainPc' = "returned"
    /\ UNCHANGED <<call, proc, paths, createBackup, stopEvent, results, processedCount,
                   totalFiles, collected, progressLog, resultLog, task, files,
                   bdir, inodes>>

Running(t) == task[t].pc \notin {"queued", "done"}

\* BatchProcessor.stop (lines 270-272), from any other thread at any time
Stop ==
    /\ stopEvent' = TRUE
    /\ task' = [t \in Tasks |->
                   [task[t] EXCEPT !.inFlight = @ \/ (~stopEvent /\ Running(t))]]
    /\ UNCHANGED <<call, proc, paths, createBackup, mainPc, results, processedCount,
                   totalFiles, collected, progressLog, resultLog, files, bdir,
                   inodes>>

(***************************************************************************)
(* _process_single_file (lines 163-242): one task of the pool.             *)
(***************************************************************************)
\* ThreadPoolExecutor: tasks start in submission order, at most max_workers
\* at a time
CanStart(t) ==
    /\ mainPc \in {"collect", "shutdown"}
    /\ task[t].pc = "queued"
    /\ \A j \in 1..(t - 1) : task[j].pc # "queued"
    /\ Cardinality({j \in Tasks : Running(j)}) < max_workers

\* the task returns its result; its locals die with the call
Finish(t, result, step, outcome) ==
    [task EXCEPT ![t].res = result, ![t].pc = "done", ![t].own[step] = outcome,
                 ![t].loaded = FALSE, ![t].doc = <<>>, ![t].uid = 0, ![t].h = 0,
                 ![t].total = 0, ![t].exc = FALSE]

\* lines 237-242: the handler of the task turns an exception into a result
ErrorResult(t) == ProcessingResult(task[t].path, FALSE, "Error", 0, NoPath)

\* lines 183-188 without the return: the task goes on to load
TaskCancelled_goes_on(t) ==
    /\ CanStart(t)
    /\ stopEvent
    /\ task' = [task EXCEPT ![t].sawStop = stopEvent, ![t].pc = "load"]
    /\ UNCHANGED <<mainVars, files, bdir, inodes>>

\* lines 183-188: the stop event is set when the task starts
TaskCancelled(t) ==
    /\ CanStart(t)
    /\ stopEvent
    /\ task' = [task EXCEPT
                   ![t].sawStop = stopEvent,
                   ![t].pc = "done",
                   ![t].res = ProcessingResult(task[t].path, FALSE,
                                               "Processing cancelled", 0, NoPath)]
    /\ UNCHANGED <<mainVars, files, bdir, inodes>>

\* lines 183 and 190: the stop event is clear when the task starts
TaskBegin(t) ==
    /\ CanStart(t)
    /\ ~stopEvent
    /\ task' = [task EXCEPT ![t].sawStop = stopEvent, ![t].pc = "load"]
    /\ UNCHANGED <<mainVars, files, bdir, inodes>>

\* lines 193-212: load() returns True and the document validates; the
\* backup comes next when it was asked for
Load(t) ==
    /\ task[t].pc = "load"
    /\ task' = [task EXCEPT ![t].loaded = TRUE, ![t].doc = files[task[t].path],
                            ![t].own.load = "ok", ![t].own.validate = "ok",
                            ![t].pc = IF createBackup THEN "bk_begin" ELSE "replace"]
    /\ UNCHANGED <<mainVars, files, bdir, inodes>>

\* lines 193-198, load() returning False
LoadFail(t) ==
    /\ task[t].pc = "load"
    /\ task' = Finish(t, ProcessingResult(task[t].path, FALSE,
                                          "Failed to load document", 0, NoPath),
                      "load", "fail")
    /\ UNCHANGED <<mainVars, files, bdir, inodes>>

\* lines 193-207: load() returns True, validate_document reports errors
ValidateFail(t) ==
    /\ task[t].pc = "load"
    /\ task' = [Finish(t, ProcessingResult(task[t].path, FALSE,
                                           "Invalid document", 0, NoPath),
                       "validate", "fail")
                EXCEPT ![t].own.load = "ok"]
    /\ UNCHANGED <<mainVars, files, bdir, inodes>>

\* lines 215-235 with a second look at the stop event before the save
Save_checks_stop(t) ==
    /\ task[t].pc = "replace"
    /\ IF stopEvent
       THEN /\ task' = Finish(t, ProcessingResult(task[t].path, FALSE,
                                                  "Processing cancelled", 0, NoPath),
                              "save", "none")
            /\ files' = files
       ELSE /\ files' = [files EXCEPT ![task[t].path] = RulesApplied[task[t].doc].doc]
            /\ task' = [Finish(t, ProcessingResult(task[t].path, TRUE,
                                                   "Successfully processed",
                                                   RulesApplied[task[t].doc].count,
                                                   task[t].bk),
                               "save", "ok")
                        EXCEPT ![t].own.replace = "ok"]
    /\ UNCHANGED <<mainVars, bdir, inodes>>

\* a task that appends its result to the log itself, from its worker thread
Save_appends_result(t) ==
    /\ task[t].pc = "replace"
    /\ files' = [files EXCEPT ![task[t].path] = RulesApplied[task[t].doc].doc]
    /\ task' = [Finish(t, ProcessingResult(task[t].path, TRUE,
                                           "Successfully processed",
                                           RulesApplied[task[t].doc].count,
                                           task[t].bk),
                       "save", "ok")
                EXCEPT ![t].own.replace = "ok"]
    /\ results' = Append(results, task'[t].res)
    /\ UNCHANGED <<call, proc, paths, createBackup, mainPc, stopEvent,
                   processedCount, totalFiles, collected, progressLog,
                   resultLog, bdir, inodes>>

\* lines 215-235: every rule applied in order, the counts summed; save()
\* writes the document and returns True
Save(t) ==
    /\ task[t].pc = "replace"
    /\ files' = [files EXCEPT ![task[t].path] = RulesApplied[task[t].doc].doc]
    /\ task' = [Finish(t, ProcessingResult(task[t].path, TRUE,
                                           "Successfully processed",
                                           RulesApplied[task[t].doc].count,
                                           task[t].bk),
                       "save", "ok")
                EXCEPT ![t].own.replace = "ok"]
    /\ UNCHANGED <<mainVars, bdir, inodes>>

\* a failed save that reports the replacements made in memory
SaveFail_reports_count(t) ==
    /\ task[t].pc = "replace"
    /\ task' = [Finish(t, ProcessingResult(task[t].path, FALSE,
                                           "Failed to save document",
                                           RulesApplied[task[t].doc].count,
                                           task[t].bk),
                       "save", "fail")
                EXCEPT ![t].own.replace = "ok"]
    /\ UNCHANGED <<mainVars, files, bdir, inodes>>

\* lines 215-227: the rules are applied, save() returns False
SaveFail(t) ==
    /\ task[t].pc = "replace"
    /\ task' = [Finish(t, ProcessingResult(task[t].path, FALSE,
                                           "Failed to save document", 0, task[t].bk),
                       "save", "fail")
                EXCEPT ![t].own.replace = "ok"]
    /\ UNCHANGED <<mainVars, files, bdir, inodes>>

\* lines 216-217, 237-242: the document library raises while a rule is
\* applied; the handler of the task returns the error result
ReplaceFault(t) ==
    /\ task[t].pc = "replace"
    /\ task' = Finish(t, ErrorResult(t), "replace", "fail")
    /\ UNCHANGED <<mainVars, files, bdir, inodes>>

\* any step of task t
TaskStep(t) ==
    \/ TaskCancelled(t) \/ TaskBegin(t)
    \/ Load(t) \/ LoadFail(t) \/ ValidateFail(t)
    \/ BackupBegin(t) \/ CopyOpen(t) \/ CopyFinish(t) \/ CopyFault(t)
    \/ ReplaceIntoPlace(t) \/ ReplaceMissing(t) \/ BackupFinally(t)
    \/ Save(t) \/ SaveFail(t) \/ ReplaceFault(t)

\* no call of replace_text is followed step by step
NoCall == [pc |-> "none"]

\* no DocxProcessor is used on its own
NoProcessor == [doc_path |-> "none"]

(***************************************************************************)
(* Spec: one call of process_documents on any list of at most MaxPaths     *)
(* paths, with stop() arriving at any time.                                *)
(***************************************************************************)
Init ==
    /\ paths \in SeqsUpTo(Paths, MaxPaths)
    /\ createBackup \in BOOLEAN
    /\ mainPc = "idle"
    /\ stopEvent = FALSE
    /\ results = <<>>
    /\ processedCount = 0
    /\ totalFiles = 0
    /\ collected = {}
    /\ progressLog = <<>>
    /\ resultLog = <<>>
    /\ task = <<>>
    /\ files = [p \in ValidPaths |-> InitialContent(p)]
    /\ bdir = [n \in DirNames |-> 0]
    /\ inodes = <<>>
    /\ call = NoCall
    /\ proc = NoProcessor

Next ==
    \/ Call
    \/ \E p \in Paths : ReportInvalid(p)
    \/ Submit
    \/ \E t \in Tasks : Collect(t)
    \/ \E t \in Tasks : CollectBreak(t)
    \/ LoopEnd
    \/ Return
    \/ Stop
    \/ \E t \in Tasks : TaskCancelled(t)
    \/ \E t \in Tasks : TaskBegin(t)
    \/ \E t \in Tasks : Load(t)
    \/ \E t \in Tasks : LoadFail(t)
    \/ \E t \in Tasks : ValidateFail(t)
    \/ \E t \in Tasks : BackupBegin(t)
    \/ \E t \in Tasks : CopyOpen(t)
    \/ \E t \in Tasks : CopyFinish(t)
    \/ \E t \in Tasks : CopyFault(t)
    \/ \E t \in Tasks : ReplaceIntoPlace(t)
    \/ \E t \in Tasks : ReplaceMissing(t)
    \/ \E t \in Tasks : BackupFinally(t)
    \/ \E t \in Tasks : Save(t)
    \/ \E t \in Tasks : SaveFail(t)
    \/ \E t \in Tasks : ReplaceFault(t)

Spec == Init /\ [][Next]_vars

(***************************************************************************)
(* SpecBackup: NumInvocations callers of create_backup on one backup       *)
(* directory, each on a source of its own choice, in any interleaving.     *)
(***************************************************************************)
InitBackup ==
    /\ paths = <<>>
    /\ createBackup = TRUE
    /\ mainPc = "direct"
    /\ stopEvent = FALSE
    /\ results = <<>>
    /\ processedCount = 0
    /\ totalFiles = 0
    /\ collected = {}
    /\ progressLog = <<>>
    /\ resultLog = <<>>
    /\ task \in [1..NumInvocations -> {NewTask(p, "bk_begin") : p \in ValidPaths}]
    /\ files = [p \in ValidPaths |-> InitialContent(p)]
    /\ bdir = [n \in DirNames |-> 0]
    /\ inodes = <<>>
    /\ call = NoCall
    /\ proc = NoProcessor

NextBackup ==
    \/ \E t \in Tasks : BackupBegin(t)
    \/ \E t \in Tasks : CopyOpen(t)
    \/ \E t \in Tasks : CopyFinish(t)
    \/ \E t \in Tasks : CopyFault(t)
    \/ \E t \in Tasks : ReplaceIntoPlace(t)
    \/ \E t \in Tasks : ReplaceMissing(t)
    \/ \E t \in Tasks : BackupFinally(t)

SpecBackup == InitBackup /\ [][NextBackup]_vars

(***************************************************************************)
(* Runs with their format attributes (utils/format_preserver.py).  A run   *)
(* is its text, the value of each attribute ("None" when unset) and the    *)
(* attributes assigned during the call.                                    *)
(***************************************************************************)
Attrs == {"font_name", "font_size", "bold", "italic", "underline",
          "color_rgb", "highlight_color", "strike", "subscript", "superscript"}

\* the attributes capture_run_format tests for truth (lines 37, 40, 49, 52,
\* 55); the others are tested against None (lines 43, 46, 58, 61, 64)
TruthAttrs == {"font_name", "font_size", "underline", "color_rgb",
               "highlight_color"}

\* the values Python takes for false
Falsy == {"None", "False"}

\* FormatPreserver.capture_run_format: the dictionary of the attributes that
\* pass their test
capture_run_format(run) ==
    LET present == {a \in Attrs :
                       IF a \in TruthAttrs THEN run.fmt[a] \notin Falsy
                       ELSE run.fmt[a] # "None"}
    IN  [a \in present |-> run.fmt[a]]

\* apply_run_format assigning every attribute, None for those not captured
apply_run_format_resets(run, format_data) ==
    [run EXCEPT !.fmt = [a \in Attrs |->
                            IF a \in DOMAIN format_data THEN format_data[a]
                            ELSE "None"],
                !.written = Attrs]

\* FormatPreserver.apply_run_format: each key of the dictionary is assigned
\* to the run's attribute
apply_run_format(run, format_data) ==
    [run EXCEPT !.fmt = [a \in Attrs |->
                            IF a \in DOMAIN format_data THEN format_data[a]
                            ELSE run.fmt[a]],
                !.written = @ \cup DOMAIN format_data]

PlainFormat == [a \in Attrs |-> "None"]

HeadingFormat ==
    [PlainFormat EXCEPT !["font_name"] = "Arial", !["font_size"] = "12pt",
                        !["bold"] = "True", !["italic"] = "False",
                        !["underline"] = "False", !["color_rgb"] = "FF0000",
                        !["subscript"] = "False", !["superscript"] = "True"]

NoteFormat ==
    [PlainFormat EXCEPT !["italic"] = "True", !["underline"] = "single",
                        !["highlight_color"] = "yellow", !["strike"] = "False"]

Formats == <<PlainFormat, HeadingFormat, NoteFormat>>

NewRun(text, fmt) == [text |-> text, fmt |-> fmt, written |-> {}]

\* the run texts of a paragraph
RunTexts(runs) == [i \in 1..Len(runs) |-> runs[i].text]

\* run i of a paragraph gets format i + shift of Formats, cyclically
WithFormats(texts, shift) ==
    [i \in 1..Len(texts) |->
        NewRun(texts[i], Formats[((i + shift) % Len(Formats)) + 1])]

(***************************************************************************)
(* Documents.  A shape is the tree python-docx shows: the body paragraphs  *)
(* and the top-level tables of the document, the rows of cells of each     *)
(* table, the paragraphs and the nested tables of each cell.  Paragraphs,  *)
(* tables and cells are numbered; replacement changes no shape.            *)
(***************************************************************************)
\* one body paragraph, no table
FlatShape ==
    [body |-> <<1>>, tables |-> <<>>, rows |-> <<>>, cells |-> <<>>]

\* two body paragraphs; table 1 has the rows <<cell 1, cell 2>>, <<cell 3>>;
\* cell 1 holds paragraph 3 and table 2, whose only cell holds paragraph 5
\* and table 3, whose only cell holds paragraph 6; cell 2 holds paragraph 4;
\* cell 3 is empty
NestedShape ==
    [body |-> <<1, 2>>,
     tables |-> <<1>>,
     rows |-> << << <<1, 2>>, <<3>> >>, << <<4>> >>, << <<5>> >> >>,
     cells |-> << [paragraphs |-> <<3>>, tables |-> <<2>>],
                  [paragraphs |-> <<4>>, tables |-> <<>>],
                  [paragraphs |-> <<>>, tables |-> <<>>],
                  [paragraphs |-> <<5>>, tables |-> <<3>>],
                  [paragraphs |-> <<6>>, tables |-> <<>>] >>]

\* _replace_in_table without the loop of lines 298-300: nested tables are
\* not entered
TableOrder_skips_nested(shape, tbl) ==
    LET RowOrder(row) ==
            Concat([k \in 1..Len(row) |-> shape.cells[row[k]].paragraphs])
    IN  Concat([r \in 1..Len(shape.rows[tbl]) |-> RowOrder(shape.rows[tbl][r])])

\* _replace_in_table (lines 288-302): the paragraphs of a table in the order
\* the loops reach them: row by row, cell by cell, the paragraphs of the
\* cell, then its nested tables
RECURSIVE TableOrder(_, _)
TableOrder(shape, tbl) ==
    LET CellOrder(c) ==
            shape.cells[c].paragraphs
                \o Concat([k \in 1..Len(shape.cells[c].tables) |->
                              TableOrder(shape, shape.cells[c].tables[k])])
        RowOrder(row) == Concat([k \in 1..Len(row) |-> CellOrder(row[k])])
    IN  Concat([r \in 1..Len(shape.rows[tbl]) |-> RowOrder(shape.rows[tbl][r])])

\* replace_text (lines 155-168): doc.paragraphs, then doc.tables
DocumentOrder(shape) ==
    shape.body
        \o Concat([k \in 1..Len(shape.tables) |-> TableOrder(shape, shape.tables[k])])

(***************************************************************************)
(* replace_text followed step by step (docx_processor.py lines 128-302).   *)
(*   pc            "begin", "para" (between paragraphs), "loop" (at the    *)
(*                 top of the while loop of line 219), "done"              *)
(*   paras         paragraph number -> its runs                            *)
(*   todo          the paragraphs the loops have yet to reach, in order    *)
(*   cur           the paragraph _replace_in_paragraph is working on       *)
(*   count, search_start   its locals        total   self.replacement_count*)
(*   orig, visited, counts   history: the paragraphs before the call, the  *)
(*                 paragraphs handed to _replace_in_paragraph in order,    *)
(*                 what it returned for each (-1 before)                   *)
(***************************************************************************)
\* most runs of a paragraph of the model
MaxRuns == 3

\* the texts of the runs of the model
RunTextChoices == {<<>>, <<"a">>, <<"b">>, <<"a", "b">>, <<"b", "a">>}

\* search and replacement texts of the model
TextChoices ==
    {<<>>, <<"a">>, <<"b">>, <<"a", "a">>, <<"a", "b">>, <<"b", "a">>,
     <<"b", "b">>}

\* the paragraphs of a document with tables in the model
CellParagraphs ==
    {WithFormats(<< <<"a", "b">> >>, 1), WithFormats(<< <<"b">>, <<"a">> >>, 0)}

NewCall(shape, paras, search_text, replace_with) ==
    [pc |-> "begin", shape |-> shape, paras |-> paras, orig |-> paras,
     search_text |-> search_text, replace_with |-> replace_with,
     todo |-> <<>>, cur |-> 0, count |-> 0, search_start |-> 0, total |-> 0,
     visited |-> <<>>, counts |-> [p \in DOMAIN paras |-> -1]]

\* paragraph.text of the paragraph at hand
CurrentText == ParagraphText(RunTexts(call.paras[call.cur]))

\* line 221
MatchIndex == Find(CurrentText, call.search_text, call.search_start)

\* lines 225-247
MatchRuns ==
    LocateRuns(RunTexts(call.paras[call.cur]), 1, 0, MatchIndex,
               MatchIndex + Len(call.search_text), 0, 0)

\* lines 252-265: the format of the start run is captured, its text is
\* assigned, the format is applied; the later runs of the match are emptied
ReplaceOnce(runs, loc, replace_with) ==
    LET new_texts == SpliceRuns(RunTexts(runs), loc, replace_with)
        format_data == capture_run_format(runs[loc.start_run_idx])
    IN  [i \in 1..Len(runs) |->
            IF i = loc.start_run_idx
            THEN apply_run_format([runs[i] EXCEPT !.text = new_texts[i]],
                                  format_data)
            ELSE [runs[i] EXCEPT !.text = new_texts[i]]]

\* line 268 with the cursor left on the match
NextCursor_stays(match_index, search_text, replace_with) == match_index

\* line 268 with the cursor moved by the length of the search text
NextCursor_by_search(match_index, search_text, replace_with) ==
    match_index + Len(search_text)

\* line 268: search_start = match_index + len(replace_text)
NextCursor(match_index, search_text, replace_with) ==
    match_index + Len(replace_with)

\* lines 147-152: replace_text starts; the loops of lines 155 and 163 will
\* reach the paragraphs in DocumentOrder
ReplaceTextBegin ==
    /\ call.pc = "begin"
    /\ call' = [call EXCEPT !.pc = "para", !.total = 0,
                            !.todo = DocumentOrder(call.shape)]
    /\ UNCHANGED <<proc, paths, createBackup, mainPc, stopEvent, results,
                   processedCount, totalFiles, collected, progressLog,
                   resultLog, task, files, bdir, inodes>>

\* lines 213-214 with the paragraph rewritten from its text: one run
SkipParagraph_rewrites ==
    /\ call.pc = "para"
    /\ call.todo # <<>>
    /\ LET p == Head(call.todo)
           runs == call.paras[p]
           text == ParagraphText(RunTexts(runs))
       IN  /\ Find(text, call.search_text, 0) = -1
           /\ call' = [call EXCEPT
                          !.todo = Tail(@), !.visited = Append(@, p),
                          !.counts[p] = 0,
                          !.paras[p] = IF runs = <<>> THEN runs
                                       ELSE <<[runs[1] EXCEPT !.text = text]>>]
    /\ UNCHANGED <<proc, paths, createBackup, mainPc, stopEvent, results,
                   processedCount, totalFiles, collected, progressLog,
                   resultLog, task, files, bdir, inodes>>

\* lines 155-157 / 293-295 and 213-214: the next paragraph does not hold
\* the search text; _replace_in_paragraph returns 0
SkipParagraph ==
    /\ call.pc = "para"
    /\ call.todo # <<>>
    /\ LET p == Head(call.todo)
       IN  /\ Find(ParagraphText(RunTexts(call.paras[p])), call.search_text, 0) = -1
           /\ call' = [call EXCEPT !.todo = Tail(@), !.visited = Append(@, p),
                                   !.counts[p] = 0]
    /\ UNCHANGED <<proc, paths, createBackup, mainPc, stopEvent, results,
                   processedCount, totalFiles, collected, progressLog,
                   resultLog, task, files, bdir, inodes>>

\* lines 213-217: the next paragraph holds the search text; the loop starts
EnterLoop ==
    /\ call.pc = "para"
    /\ call.todo # <<>>
    /\ LET p == Head(call.todo)
       IN  /\ Find(ParagraphText(RunTexts(call.paras[p])), call.search_text, 0) # -1
           /\ call' = [call EXCEPT !.todo = Tail(@), !.visited = Append(@, p),
                                   !.cur = p, !.count = 0, !.search_start = 0,
                                   !.pc = "loop"]
    /\ UNCHANGED <<proc, paths, createBackup, mainPc, stopEvent, results,
                   processedCount, totalFiles, collected, progressLog,
                   resultLog, task, files, bdir, inodes>>

\* lines 220-268: one iteration that finds a match and its runs.  The model
\* follows at most LoopFuel iterations on one paragraph.
Iterate ==
    /\ call.pc = "loop"
    /\ MatchIndex # -1
    /\ MatchRuns.start_run_idx # 0
    /\ MatchRuns.end_run_idx # 0
    /\ call.count < LoopFuel
    /\ call' = [call EXCEPT
                   !.paras[call.cur] = ReplaceOnce(@, MatchRuns, call.replace_with),
                   !.count = @ + 1,
                   !.search_start = NextCursor(MatchIndex, call.search_text,
                                               call.replace_with)]
    /\ UNCHANGED <<proc, paths, createBackup, mainPc, stopEvent, results,
                   processedCount, totalFiles, collected, progressLog,
                   resultLog, task, files, bdir, inodes>>

\* lines 222-223, 249-250, 270 and 157 / 295: no further match, or no run
\* for it; the count is returned and added
LeaveLoop ==
    /\ call.pc = "loop"
    /\ \/ MatchIndex = -1
       \/ MatchRuns.start_run_idx = 0
       \/ MatchRuns.end_run_idx = 0
    /\ call' = [call EXCEPT !.pc = "para", !.counts[call.cur] = call.count,
                            !.total = @ + call.count, !.cur = 0,
                            !.count = 0, !.search_start = 0]
    /\ UNCHANGED <<proc, paths, createBackup, mainPc, stopEvent, results,
                   processedCount, totalFiles, collected, progressLog,
                   resultLog, task, files, bdir, inodes>>

\* line 170: every paragraph and table is done
ReturnCount ==
    /\ call.pc = "para"
    /\ call.todo = <<>>
    /\ call' = [call EXCEPT !.pc = "done"]
    /\ UNCHANGED <<proc, paths, createBackup, mainPc, stopEvent, results,
                   processedCount, totalFiles, collected, progressLog,
                   resultLog, task, files, bdir, inodes>>

(***************************************************************************)
(* SpecReplace: one call of replace_text, on a one-paragraph document with *)
(* any runs of the model in any of the format layouts, or on a document    *)
(* with nested tables, with any search and replacement text.               *)
(***************************************************************************)
InitReplace ==
    /\ paths = <<>>
    /\ createBackup = FALSE
    /\ mainPc = "replace_text"
    /\ stopEvent = FALSE
    /\ results = <<>>
    /\ processedCount = 0
    /\ totalFiles = 0
    /\ collected = {}
    /\ progressLog = <<>>
    /\ resultLog = <<>>
    /\ task = <<>>
    /\ files = [p \in ValidPaths |-> InitialContent(p)]
    /\ bdir = [n \in DirNames |-> 0]
    /\ inodes = <<>>
    /\ proc = NoProcessor
    /\ \E search_text \in TextChoices, replace_with \in TextChoices :
        \/ \E texts \in SeqsUpTo(RunTextChoices, MaxRuns),
              shift \in 0..(Len(Formats) - 1) :
            call = NewCall(FlatShape, <<WithFormats(texts, shift)>>,
                           search_text, replace_with)
        \/ \E paras \in [1..6 -> CellParagraphs] :
            call = NewCall(NestedShape, paras, search_text, replace_with)

NextReplace ==
    \/ ReplaceTextBegin
    \/ SkipParagraph
    \/ EnterLoop
    \/ Iterate
    \/ LeaveLoop
    \/ ReturnCount

SpecReplace == InitReplace /\ [][NextReplace]_vars

(***************************************************************************)
(* SpecProcessor: one DocxProcessor used on its own, the way the tests of  *)
(* the repository use it: any sequence of at most MaxOps calls of load,    *)
(* replace_text, replace_multiple, save and close.                         *)
(*   proc.doc_path           the document of the processor                 *)
(*   proc.loaded             self.doc is not None                          *)
(*   proc.doc                self.doc (the empty document while not loaded)*)
(*   proc.replacement_count  self.replacement_count                        *)
(*   proc.ret                the last call: its name, the number or the    *)
(*                           truth value it returned, whether it raised    *)
(*   proc.ops                calls made so far                             *)
(***************************************************************************)
\* calls made on the processor of the model
MaxOps == 4

\* what a call returned: count for the calls that return a number, ok for
\* the calls that return a truth value
Returns(op, count, ok, raised) ==
    [op |-> op, count |-> count, ok |-> ok, raised |-> raised]

\* DocxProcessor.__init__
NewProcessor(doc_path) ==
    [doc_path |-> doc_path, loaded |-> FALSE, doc |-> <<>>,
     replacement_count |-> 0, ret |-> Returns("init", 0, TRUE, FALSE),
     ops |-> 0]

\* a call can be made
ProcessorReady == mainPc = "processor" /\ proc.ops < MaxOps

\* the call op has returned
Returned1(op, count, ok) ==
    [proc EXCEPT !.ret = Returns(op, count, ok, FALSE), !.ops = @ + 1]

\* load, lines 49-51
ProcessorLoad ==
    /\ ProcessorReady
    /\ proc' = [Returned1("load", 0, TRUE) EXCEPT
                    !.loaded = TRUE, !.doc = files[proc.doc_path]]
    /\ UNCHANGED <<paths, createBackup, mainPc, stopEvent, results,
                   processedCount, totalFiles, collected, progressLog,
                   resultLog, task, files, bdir, inodes, call>>

\* load, lines 52-54: the document library raises, self.doc is not assigned
ProcessorLoadFail ==
    /\ ProcessorReady
    /\ proc' = Returned1("load", 0, FALSE)
    /\ UNCHANGED <<paths, createBackup, mainPc, stopEvent, results,
                   processedCount, totalFiles, collected, progressLog,
                   resultLog, task, files, bdir, inodes, call>>

\* replace_text that sets replacement_count to 0 before it looks at self.doc
ProcessorReplaceText_resets_first(search_text, replace_with) ==
    /\ ProcessorReady
    /\ IF ~proc.loaded
       THEN proc' = [Returned1("replace_text", 0, TRUE) EXCEPT
                         !.replacement_count = 0]
       ELSE LET done == replace_text(proc.doc, search_text, replace_with)
            IN  proc' = [Returned1("replace_text", done.count, TRUE) EXCEPT
                             !.doc = done.doc, !.replacement_count = done.count]
    /\ UNCHANGED <<paths, createBackup, mainPc, stopEvent, results,
                   processedCount, totalFiles, collected, progressLog,
                   resultLog, task, files, bdir, inodes, call>>

\* replace_text, lines 147-170
ProcessorReplaceText(search_text, replace_with) ==
    /\ ProcessorReady
    /\ IF ~proc.loaded
       THEN proc' = Returned1("replace_text", 0, TRUE)
       ELSE LET done == replace_text(proc.doc, search_text, replace_with)
            IN  proc' = [Returned1("replace_text", done.count, TRUE) EXCEPT
                             !.doc = done.doc, !.replacement_count = done.count]
    /\ UNCHANGED <<paths, createBackup, mainPc, stopEvent, results,
                   processedCount, totalFiles, collected, progressLog,
                   resultLog, task, files, bdir, inodes, call>>

\* replace_multiple, lines 186-195; replacement_count is left at the count
\* of the last rule (line 150 resets it in every replace_text)
ProcessorReplaceMultiple(replacements) ==
    /\ ProcessorReady
    /\ IF ~proc.loaded
       THEN proc' = Returned1("replace_multiple", 0, TRUE)
       ELSE LET done == ApplyRules(proc.doc, replacements)
                before == ApplyRules(proc.doc,
                              SubSeq(replacements, 1, Len(replacements) - 1))
            IN  proc' = [Returned1("replace_multiple", done.count, TRUE) EXCEPT
                             !.doc = done.doc,
                             !.replacement_count =
                                 IF replacements = <<>> THEN @
                                 ELSE done.count - before.count]
    /\ UNCHANGED <<paths, createBackup, mainPc, stopEvent, results,
                   processedCount, totalFiles, collected, progressLog,
                   resultLog, task, files, bdir, inodes, call>>

\* replace_text on a loaded document, the document library raises: the
\* error reaches the caller (replace_text has no handler)
ProcessorReplaceFault ==
    /\ ProcessorReady
    /\ proc.loaded
    /\ proc' = [proc EXCEPT !.ret = Returns("replace_text", 0, TRUE, TRUE),
                            !.replacement_count = 0, !.ops = @ + 1]
    /\ UNCHANGED <<paths, createBackup, mainPc, stopEvent, results,
                   processedCount, totalFiles, collected, progressLog,
                   resultLog, task, files, bdir, inodes, call>>

\* save, lines 313-319
ProcessorSave ==
    /\ ProcessorReady
    /\ IF ~proc.loaded
       THEN /\ proc' = Returned1("save", 0, FALSE)
            /\ files' = files
       ELSE /\ proc' = Returned1("save", 0, TRUE)
            /\ files' = [files EXCEPT ![proc.doc_path] = proc.doc]
    /\ UNCHANGED <<paths, createBackup, mainPc, stopEvent, results,
                   processedCount, totalFiles, collected, progressLog,
                   resultLog, task, bdir, inodes, call>>

\* save, lines 320-322: doc.save raises, the handler returns False
ProcessorSaveFail ==
    /\ ProcessorReady
    /\ proc.loaded
    /\ proc' = Returned1("save", 0, FALSE)
    /\ UNCHANGED <<paths, createBackup, mainPc, stopEvent, results,
                   processedCount, totalFiles, collected, progressLog,
                   resultLog, task, files, bdir, inodes, call>>

\* close, line 421
ProcessorClose ==
    /\ ProcessorReady
    /\ proc' = [Returned1("close", 0, TRUE) EXCEPT !.loaded = FALSE, !.doc = <<>>]
    /\ UNCHANGED <<paths, createBackup, mainPc, stopEvent, results,
                   processedCount, totalFiles, collected, progressLog,
                   resultLog, task, files, bdir, inodes, call>>

\* the rule lists given to replace_multiple in the model
RuleLists == {<<>>, Rules, <<Rules[2], Rules[1]>>}

InitProcessor ==
    /\ paths = <<>>
    /\ createBackup = FALSE
    /\ mainPc = "processor"
    /\ stopEvent = FALSE
    /\ results = <<>>
    /\ processedCount = 0
    /\ totalFiles = 0
    /\ collected = {}
    /\ progressLog = <<>>
    /\ resultLog = <<>>
    /\ task = <<>>
    /\ files = [p \in ValidPaths |-> InitialContent(p)]
    /\ bdir = [n \in DirNames |-> 0]
    /\ inodes = <<>>
    /\ call = NoCall
    /\ proc \in {NewProcessor(p) : p \in ValidPaths}

NextProcessor ==
    \/ ProcessorLoad
    \/ ProcessorLoadFail
    \/ \E i \in 1..Len(Rules) : ProcessorReplaceText(Rules[i][1], Rules[i][2])
    \/ \E replacements \in RuleLists : ProcessorReplaceMultiple(replacements)
    \/ ProcessorReplaceFault
    \/ ProcessorSave
    \/ ProcessorSaveFail
    \/ ProcessorClose

SpecProcessor == InitProcessor /\ [][NextProcessor]_vars

(***************************************************************************)
(* FairSpec: Spec with threads that keep running.  The calling thread and  *)
(* the workers of the pool are threads of the operating system: a step one *)
(* of them can take is taken in the end.  Nothing obliges anyone to call   *)
(* stop().                                                                 *)
(***************************************************************************)
\* a step of the calling thread or of a worker
ThreadStep ==
    \/ Call
    \/ \E p \in Paths : ReportInvalid(p)
    \/ Submit
    \/ \E t \in Tasks : Collect(t)
    \/ \E t \in Tasks : CollectBreak(t)
    \/ LoopEnd
    \/ Return
    \/ \E t \in Tasks : TaskStep(t)

FairSpec == Spec /\ WF_vars(ThreadStep)

(***************************************************************************)
(* SpecRaising: Spec with callbacks that may raise.  Each invocation of    *)
(* result_callback or progress_callback either returns or raises.          *)
(*   lines 133-143  the try block: append, count, result_callback,         *)
(*                  progress_callback                                      *)
(*   lines 145-159  its handler, entered by any exception of the block:    *)
(*                  append an error result, result_callback, count,        *)
(*                  progress_callback; an exception raised here leaves the *)
(*                  loop and the with block (which waits for the tasks)    *)
(*                  and process_documents raises it                        *)
(* resultLog and progressLog record every invocation, raising or not.      *)
(***************************************************************************)
\* lines 146-150: the result the handler of the loop builds
ProcessingError(p) == ProcessingResult(p, FALSE, "Processing error", 0, NoPath)

\* lines 106-108: result_callback raises for the result of an invalid path;
\* nothing handles it and no task has been submitted
ReportInvalidRaises(p) ==
    /\ mainPc = "report"
    /\ p \in UnreportedInvalid
    /\ LET result == ProcessingResult(p, FALSE, InvalidMessage, 0, NoPath)
       IN  /\ results' = Append(results, result)
           /\ resultLog' = Append(resultLog, result)
    /\ mainPc' = "raised"
    /\ UNCHANGED <<call, proc, paths, createBackup, stopEvent, processedCount,
                   totalFiles, collected, progressLog, task, files, bdir,
                   inodes>>

\* lines 128-159: the future of task t is taken; the callback named by first
\* ("result": line 140, "progress": line 143) raises, the handler runs, and
\* in it the callback named by again raises ("result": line 154,
\* "progress": line 159) or none does ("none")
CollectRaising(t, first, again) ==
    /\ mainPc = "collect"
    /\ task[t].pc = "done"
    /\ t \notin collected
    /\ ~stopEvent
    /\ collected' = collected \cup {t}
    /\ results' = results \o <<task[t].res, ProcessingError(task[t].path)>>
    /\ resultLog' = resultLog \o <<task[t].res, ProcessingError(task[t].path)>>
    /\ processedCount' = IF again = "result" THEN processedCount + 1
                         ELSE processedCount + 2
    /\ progressLog' =
           progressLog
           \o (IF first = "progress"
               THEN << <<processedCount + 1, totalFiles>> >> ELSE <<>>)
           \o (IF again = "result"
               THEN <<>> ELSE << <<processedCount + 2, totalFiles>> >>)
    /\ mainPc' = IF again = "none" THEN "collect" ELSE "raising"
    /\ UNCHANGED <<call, proc, paths, createBackup, stopEvent, totalFiles, task,
                   files, bdir, inodes>>

\* line 114: the exception leaves the with block, which waits for every
\* task of the pool; process_documents raises
Raise ==
    /\ mainPc = "raising"
    /\ \A t \in Tasks : task[t].pc = "done"
    /\ mainPc' = "raised"
    /\ UNCHANGED <<call, proc, paths, createBackup, stopEvent, results,
                   processedCount, totalFiles, collected, progressLog,
                   resultLog, task, files, bdir, inodes>>

NextRaising ==
    \/ Call
    \/ \E p \in Paths : ReportInvalid(p)
    \/ Submit
    \/ \E t \in Tasks : Collect(t)
    \/ \E t \in Tasks : CollectBreak(t)
    \/ LoopEnd
    \/ Return
    \/ Stop
    \/ \E t \in Tasks : TaskCancelled(t)
    \/ \E t \in Tasks : TaskBegin(t)
    \/ \E t \in Tasks : Load(t)
    \/ \E t \in Tasks : LoadFail(t)
    \/ \E t \in Tasks : ValidateFail(t)
    \/ \E t \in Tasks : BackupBegin(t)
    \/ \E t \in Tasks : CopyOpen(t)
    \/ \E t \in Tasks : CopyFinish(t)
    \/ \E t \in Tasks : CopyFault(t)
    \/ \E t \in Tasks : ReplaceIntoPlace(t)
    \/ \E t \in Tasks : ReplaceMissing(t)
    \/ \E t \in Tasks : BackupFinally(t)
    \/ \E t \in Tasks : Save(t)
    \/ \E t \in Tasks : SaveFail(t)
    \/ \E t \in Tasks : ReplaceFault(t)
    \/ \E p \in Paths : ReportInvalidRaises(p)
    \/ \E t \in Tasks, first \in {"result", "progress"},
          again \in {"none", "result", "progress"} :
              CollectRaising(t, first, again)
    \/ Raise

SpecRaising == Init /\ [][NextRaising]_vars

(***************************************************************************)
(* SpecLeftover: a call of process_documents on a BatchProcessor that an   *)
(* earlier batch, stopped by stop(), has used: the log holds a result of   *)
(* that batch and the stop event is set (nothing but the next call resets  *)
(* them, lines 92-93).                                                     *)
(***************************************************************************)
\* a result of the earlier batch
EarlierResult ==
    ProcessingResult("A", FALSE, "result of an earlier batch", 0, NoPath)

InitLeftover ==
    /\ paths \in SeqsUpTo(Paths, MaxPaths)
    /\ createBackup \in BOOLEAN
    /\ mainPc = "idle"
    /\ stopEvent = TRUE
    /\ results = <<EarlierResult>>
    /\ processedCount = 0
    /\ totalFiles = 0
    /\ collected = {}
    /\ progressLog = <<>>
    /\ resultLog = <<>>
    /\ task = <<>>
    /\ files = [p \in ValidPaths |-> InitialContent(p)]
    /\ bdir = [n \in DirNames |-> 0]
    /\ inodes = <<>>
    /\ call = NoCall
    /\ proc = NoProcessor

SpecLeftover == InitLeftover /\ [][Next]_vars

(***************************************************************************)
(* The summary of the result log.  success_rate, a quotient in the code,   *)
(* is kept as the pair of its numerator and denominator.                   *)
(***************************************************************************)
\* sum(1 for r in log if r.success)
RECURSIVE CountSuccessful(_)
CountSuccessful(log) ==
    IF log = <<>> THEN 0
    ELSE (IF Head(log).success THEN 1 ELSE 0) + CountSuccessful(Tail(log))

\* sum(1 for r in log if r.replacements > 0)
RECURSIVE CountChanged(_)
CountChanged(log) ==
    IF log = <<>> THEN 0
    ELSE (IF Head(log).replacements > 0 THEN 1 ELSE 0) + CountChanged(Tail(log))

\* sum(r.replacements for r in log)
RECURSIVE SumReplacements(_)
SumReplacements(log) ==
    IF log = <<>> THEN 0
    ELSE Head(log).replacements + SumReplacements(Tail(log))

\* a summary that takes the documents with replacements for the successful
get_summary_counts_changed(log) ==
    LET total == Len(log)
        successful == CountChanged(log)
    IN  [total_files |-> total,
         successful |-> successful,
         failed |-> total - successful,
         total_replacements |-> SumReplacements(log),
         success_rate |-> IF total > 0
                          THEN [num |-> successful, den |-> total]
                          ELSE [num |-> 0, den |-> 1]]

\* get_summary, lines 280-291
get_summary(log) ==
    LET total == Len(log)
        successful == CountSuccessful(log)
    IN  [total_files |-> total,
         successful |-> successful,
         failed |-> total - successful,
         total_replacements |-> SumReplacements(log),
         success_rate |-> IF total > 0
                          THEN [num |-> successful, den |-> total]
                          ELSE [num |-> 0, den |-> 1]]

\* get_failed_results, line 299
get_failed_results(log) == SelectSeq(log, LAMBDA r : ~r.success)

\* get_successful_results, line 307
get_successful_results(log) == SelectSeq(log, LAMBDA r : r.success)

(***************************************************************************)
(* Claims on create_backup.                                                *)
(***************************************************************************)
\* the callers whose create_backup returned a path
Returned == {t \in Tasks : task[t].pc = "done" /\ task[t].bk # NoPath}

AllCallsFinished == \A t \in Tasks : task[t].pc = "done"

\* C1: once every create_backup invocation on one backup directory has
\* finished, the returned backup paths are pairwise distinct and each of
\* them names a file of the directory.
C1_ReturnedPathsDistinctAndPresent ==
    (Direct /\ AllCallsFinished) =>
        /\ \A t1, t2 \in Returned : t1 # t2 => task[t1].bk # task[t2].bk
        /\ \A t \in Returned : bdir[task[t].bk] # 0

\* the content a complete copy of some source can have
SourceContents == {CompleteFile(files[p]) : p \in ValidPaths}

\* C11: at every moment, a file visible under a final backup name is a
\* complete copy of a source; no partially written file is visible there.
C11_NoPartialFileUnderFinalName ==
    Direct =>
        \A n \in BackupNames :
            bdir[n] # 0 => inodes[bdir[n]] \in SourceContents

\* C12: the file under every backup path that create_backup has returned
\* holds the content of the caller's own source, whatever other callers do
\* in the same backup directory.
C12_ReturnedBackupEqualsSource ==
    Direct =>
        \A t \in Returned :
            /\ bdir[task[t].bk] # 0
            /\ inodes[bdir[task[t].bk]] = CompleteFile(files[task[t].path])

\* the callers that hold a file open under their temp name or have yet to
\* run their finally block
HoldsTemp(t, n) ==
    /\ task[t].pc \in {"bk_write", "bk_replace", "bk_finally"}
    /\ TmpName(task[t].path, task[t].uid) = n

ValidCount == Cardinality({i \in 1..Len(paths) : FileIsValid(paths[i])})

ResultsFor(p) == {i \in 1..Len(results) : results[i].file_path = p}

TasksOn(p) == {t \in Tasks : task[t].path = p}

InResults(r) == \E i \in 1..Len(results) : results[i] = r

InResultLog(r) == \E i \in 1..Len(resultLog) : resultLog[i] = r

Returned0 == mainPc = "returned"

\* C2: when process_documents has returned, every task it submitted has
\* completed and has had its result appended to the result log, given to
\* result_callback and counted in a progress_callback invocation, also
\* when stop() was called.
C2_EveryCompletedTaskReported ==
    Returned0 =>
        /\ \A t \in Tasks :
            /\ task[t].pc = "done"
            /\ t \in collected
            /\ InResults(task[t].res)
            /\ InResultLog(task[t].res)
        /\ Len(progressLog) = Len(task)

\* C3: when process_documents returns and stop() was not called, the
\* result list has as many results as the input list has paths.
C3_OneResultPerInputPath ==
    (Returned0 /\ ~stopEvent) => Len(results) = Len(paths)

\* C4: no two tasks of a batch work on the same document path, neither at
\* the same time nor one after the other.
C4_OneTaskPerDocument ==
    \A t1, t2 \in Tasks :
        (t1 # t2 /\ task[t1].path = task[t2].path) =>
            /\ ~(Running(t1) /\ Running(t2))
            /\ ~(task[t1].own.load # "none" /\ task[t2].own.load # "none")

\* C5: a finished task that created a backup reports that backup's path in
\* its result, whatever happened after the backup.
C5_BackupPathReported ==
    \A t \in Tasks :
        (task[t].pc = "done" /\ task[t].bk # NoPath) =>
            task[t].res.backup_path = task[t].bk

\* a step of the task itself failed
StepFailed(t) ==
    \E step \in DOMAIN NoSteps : task[t].own[step] = "fail"

\* the message the task's own outcomes call for
OwnMessage(t) ==
    CASE task[t].own.load = "fail" -> "Failed to load document"
      [] task[t].own.validate = "fail" -> "Invalid document"
      [] task[t].own.backup = "fail" -> "Error"
      [] task[t].own.replace = "fail" -> "Error"
      [] task[t].own.save = "fail" -> "Failed to save document"
      [] OTHER -> "Successfully processed"

\* the result of a finished task follows from the outcomes of its own steps
OwnResultOnly(t) ==
    /\ task[t].res.file_path = task[t].path
    /\ task[t].res.message = OwnMessage(t)
    /\ task[t].res.success = ~StepFailed(t)
    /\ StepFailed(t) => task[t].res.replacements = 0
    /\ ~StepFailed(t) =>
        /\ task[t].own.save = "ok"
        /\ task[t].res.backup_path = task[t].bk
        /\ createBackup = (task[t].bk # NoPath)
        /\ Cardinality(TasksOn(task[t].path)) = 1 =>
            /\ task[t].res.replacements =
                   ApplyRules(InitialContent(task[t].path), Rules).count
            /\ files[task[t].path] =
                   ApplyRules(InitialContent(task[t].path), Rules).doc

NextNoStop ==
    \/ Call \/ Submit \/ LoopEnd \/ Return
    \/ \E p \in Paths : ReportInvalid(p)
    \/ \E t \in Tasks : Collect(t) \/ CollectBreak(t) \/ TaskStep(t)

\* C6: a failing step of one task (load, validation, backup, replacement,
\* save) does not stop the batch: the call can always go on until it has
\* returned, and when it returns without stop() every task has exactly one
\* result in the result list, a failed one for a task with a failed step,
\* and every task without a failed step has succeeded with the result its
\* own document calls for.
C6_FailureIsolated ==
    /\ ~Returned0 => ENABLED NextNoStop
    /\ (Returned0 /\ ~stopEvent) =>
        /\ \A t \in Tasks :
            /\ task[t].pc = "done"
            /\ t \in collected
            /\ InResults(task[t].res)
            /\ OwnResultOnly(t)
        /\ \A p \in ValidPaths :
            Cardinality(ResultsFor(p)) = Cardinality(TasksOn(p))

\* C6 witness: the batch has returned, a task failed in replacement and the
\* task of another document succeeded.
C6_Witness ==
    /\ Returned0 /\ ~stopEvent
    /\ \E t1, t2 \in Tasks :
        /\ task[t1].path # task[t2].path
        /\ task[t1].own.replace = "fail"
        /\ task[t2].res.success

CancelledResult(p) == ProcessingResult(p, FALSE, "Processing cancelled", 0, NoPath)

\* C7: a task that finds the stop event set when it starts has done no I/O
\* (no load, no backup, no save), its start step leaves the documents and
\* the backup directory as they were, and its result is the failed result
\* with the cancelled message, which no other task returns.
C7_CancelledTaskDoesNothing ==
    /\ [](\A t \in Tasks :
            /\ task[t].sawStop =>
                /\ task[t].pc = "done"
                /\ task[t].res = CancelledResult(task[t].path)
                /\ task[t].own = NoSteps
                /\ task[t].bk = NoPath
                /\ ~task[t].loaded
            /\ task[t].res.message = "Processing cancelled" => task[t].sawStop)
    /\ [][\A t \in Tasks :
            (t \in DOMAIN task' /\ task[t].pc = "queued" /\ stopEvent
                /\ task'[t].pc # "queued") =>
                /\ task'[t].sawStop
                /\ files' = files /\ bdir' = bdir /\ inodes' = inodes]_vars

\* C7 witness: a task was cancelled at its start.
C7_Witness ==
    \E t \in Tasks : task[t].sawStop /\ task[t].pc = "done"

\* C8: a task that was past its cancellation check when stop() was called
\* is not cancelled and not held back: it can take its next step while the
\* stop event is set, and its result follows from its own steps as without
\* stop().
C8_InFlightTaskNotInterrupted ==
    \A t \in Tasks :
        task[t].inFlight =>
            /\ stopEvent
            /\ ~task[t].sawStop
            /\ Running(t) => ENABLED TaskStep(t)
            /\ task[t].pc = "done" =>
                /\ task[t].res # CancelledResult(task[t].path)
                /\ OwnResultOnly(t)

\* C8 witness: a task that was running when stop() was called has since
\* made its backup, saved and succeeded.
C8_Witness ==
    \E t \in Tasks :
        /\ task[t].inFlight
        /\ task[t].pc = "done"
        /\ task[t].res.success
        /\ task[t].bk # NoPath

\* C9: once validation is over, every invalid input path has its failed
\* result in the result list ahead of every task result, no task was
\* submitted for it, and every progress_callback invocation carried the
\* number of valid paths as its total; there are never more invocations
\* than valid paths.
C9_InvalidPathsReportedNotSubmitted ==
    /\ mainPc \in {"idle", "report"} => task = <<>> /\ progressLog = <<>>
    /\ mainPc \in {"collect", "shutdown", "returned"} =>
        /\ \A p \in Range(paths) :
            ~FileIsValid(p) =>
                /\ \E i \in 1..Cardinality(Range(paths) \ ValidPaths) :
                    results[i] = ProcessingResult(p, FALSE, InvalidMessage, 0, NoPath)
                /\ TasksOn(p) = {}
        /\ Len(task) = ValidCount
        /\ Len(progressLog) <= ValidCount
        /\ \A i \in 1..Len(progressLog) : progressLog[i][2] = ValidCount

\* C9 witness: a batch with an unreadable path and a valid one has
\* returned after one progress report.
C9_Witness ==
    /\ Returned0
    /\ "L" \in Range(paths)
    /\ Len(progressLog) = 1

\* C10: the i-th progress_callback invocation of a call carries the
\* processed count i and the number of valid paths.
C10_ProgressCountsByOne ==
    \A i \in 1..Len(progressLog) : progressLog[i] = <<i, ValidCount>>

\* C10 witness: two documents were reported, the second of the input list
\* first.
C10_Witness ==
    /\ Len(progressLog) = 2
    /\ paths = <<"A", "B">>
    /\ results[1].file_path = "B"

(***************************************************************************)
(* Claims on replace_text and _replace_in_paragraph.                       *)
(***************************************************************************)
\* str.replace by the book: the text is scanned once from the left, an
\* occurrence of the search text is replaced and the scan goes on behind it
RECURSIVE ScanReplace(_, _, _)
ScanReplace(text, search_text, replace_with) ==
    IF Len(text) < Len(search_text) THEN text
    ELSE IF SubSeq(text, 1, Len(search_text)) = search_text
    THEN replace_with
             \o ScanReplace(SubSeq(text, Len(search_text) + 1, Len(text)),
                            search_text, replace_with)
    ELSE <<Head(text)>> \o ScanReplace(Tail(text), search_text, replace_with)

\* the number of occurrences that scan replaces
RECURSIVE ScanCount(_, _)
ScanCount(text, search_text) ==
    IF Len(text) < Len(search_text) THEN 0
    ELSE IF SubSeq(text, 1, Len(search_text)) = search_text
    THEN 1 + ScanCount(SubSeq(text, Len(search_text) + 1, Len(text)), search_text)
    ELSE ScanCount(Tail(text), search_text)

OrigText(p) == Concat(RunTexts(call.orig[p]))

NowText(p) == Concat(RunTexts(call.paras[p]))

Occurs(text, search_text) ==
    \E i \in 0..(Len(text) - Len(search_text)) :
        SubSeq(text, i + 1, i + Len(search_text)) = search_text

\* the run that holds the character at 0-based position pos of the text
RunAt(runs, pos) ==
    CHOOSE k \in 1..Len(runs) :
        LET before == Len(Concat(SubSeq(RunTexts(runs), 1, k - 1)))
        IN  before <= pos /\ pos < before + Len(runs[k].text)

\* the 0-based position in the paragraph text where run k starts
RunOffset(runs, k) == Len(Concat(SubSeq(RunTexts(runs), 1, k - 1)))

\* the step is an iteration of the while loop that replaced a match
IterationStep ==
    /\ call.pc = "loop"
    /\ call'.pc = "loop"
    /\ call'.count = call.count + 1

\* C14: a call with an empty search text is rejected: it never enters the
\* replacement loop, counts nothing and changes no run.
C14_EmptySearchRejected ==
    (call.pc # "none" /\ call.search_text = <<>>) =>
        /\ call.pc # "loop"
        /\ call.paras = call.orig
        /\ call.total = 0

\* C15: for a non-empty search text, what _replace_in_paragraph returns for
\* a paragraph is the number of occurrences a single scan of the original
\* text from the left replaces, and the paragraph's text is then the
\* original text with those occurrences replaced, however the text is split
\* into runs.
C15_CountAndTextAsOneScan ==
    (call.pc # "none" /\ call.search_text # <<>>) =>
        \A p \in DOMAIN call.paras :
            call.counts[p] # -1 =>
                /\ call.counts[p] = ScanCount(OrigText(p), call.search_text)
                /\ NowText(p) = ScanReplace(OrigText(p), call.search_text,
                                            call.replace_with)

\* C15 witness: a paragraph with an empty run got two replacements by a
\* text that holds the search text.
C15_Witness ==
    /\ call.pc = "done"
    /\ call.shape = FlatShape
    /\ call.counts[1] >= 2
    /\ call.search_text # <<>>
    /\ Occurs(call.replace_with, call.search_text)
    /\ \E k \in 1..Len(call.orig[1]) : call.orig[1][k].text = <<>>

\* C16: for a non-empty search text the loop ends: the cursor stays within
\* the text, there are never more iterations than the original text has
\* characters and the model never cuts the loop short; every iteration
\* moves the cursor forward or leaves it, leaves the text before the old
\* cursor as it was, and makes the text behind the cursor shorter.
C16_LoopTerminates ==
    /\ []((call.pc = "loop" /\ call.search_text # <<>>) =>
            /\ call.search_start <= Len(CurrentText)
            /\ call.count <= Len(OrigText(call.cur))
            /\ MatchIndex # -1 => call.count < LoopFuel)
    /\ [][(IterationStep /\ call.search_text # <<>>) =>
            /\ call'.search_start >= call.search_start
            /\ SubSeq(NowText(call.cur)', 1, call.search_start)
                   = SubSeq(NowText(call.cur), 1, call.search_start)
            /\ Len(NowText(call.cur)') - call'.search_start
                   < Len(NowText(call.cur)) - call.search_start]_vars

\* C16 witness: the loop has ended after three replacements by a text that
\* holds the search text.
C16_Witness ==
    /\ call.pc = "done"
    /\ call.shape = FlatShape
    /\ call.counts[1] = 3
    /\ call.search_text # <<>>
    /\ Occurs(call.replace_with, call.search_text)

\* C17: an iteration whose match starts in run i and ends in a later run j
\* keeps the number of runs; run i then holds its text before the match,
\* the replacement and run j's text behind the match; the runs i+1..j are
\* empty; the text of every other run is as before.
C17_MatchAcrossRuns ==
    [][(IterationStep /\ call.search_text # <<>>) =>
        LET runs == call.paras[call.cur]
            after == call'.paras[call.cur]
            first == MatchIndex
            last == MatchIndex + Len(call.search_text) - 1
            i == RunAt(runs, first)
            j == RunAt(runs, last)
        IN  i < j =>
              /\ Len(after) = Len(runs)
              /\ after[i].text =
                     SubSeq(runs[i].text, 1, first - RunOffset(runs, i))
                       \o call.replace_with
                       \o SubSeq(runs[j].text, last - RunOffset(runs, j) + 2,
                                 Len(runs[j].text))
              /\ \A k \in (i + 1)..j : after[k].text = <<>>
              /\ \A k \in 1..Len(runs) :
                    (k < i \/ k > j) => after[k].text = runs[k].text]_vars

\* C17 witness: "ab" was replaced where it ran from the first run over an
\* empty run into the third.
C17_Witness ==
    /\ call.pc = "loop"
    /\ call.shape = FlatShape
    /\ call.count = 1
    /\ call.search_text = <<"a", "b">>
    /\ RunTexts(call.orig[1]) = << <<"b", "a">>, <<>>, <<"b", "a">> >>
    /\ call.paras[1][1].text = <<"b">> \o call.replace_with \o <<"a">>
    /\ call.paras[1][2].text = <<>>
    /\ call.paras[1][3].text = <<>>

\* C18: after an iteration the start run has the captured value of every
\* attribute of the snapshot taken before its text was assigned; no
\* attribute outside the snapshot was assigned on it or has changed; the
\* attributes of every other run, the emptied ones included, were not
\* assigned and have not changed.
C18_FormatPreserved ==
    [][IterationStep =>
        LET runs == call.paras[call.cur]
            after == call'.paras[call.cur]
            i == MatchRuns.start_run_idx
            snapshot == capture_run_format(runs[i])
        IN  /\ \A a \in DOMAIN snapshot : after[i].fmt[a] = snapshot[a]
            /\ after[i].written \ runs[i].written \subseteq DOMAIN snapshot
            /\ \A a \in Attrs \ DOMAIN snapshot : after[i].fmt[a] = runs[i].fmt[a]
            /\ \A k \in 1..Len(runs) :
                  k # i => /\ after[k].fmt = runs[k].fmt
                           /\ after[k].written = runs[k].written]_vars

\* C18 witness: a run with attributes inside and outside the snapshot
\* (underline is False, not captured) was the start run of a replacement
\* that emptied the run after it.
C18_Witness ==
    /\ call.pc = "loop"
    /\ call.shape = FlatShape
    /\ call.count = 1
    /\ Len(call.paras[1]) >= 2
    /\ call.paras[1][1].fmt = HeadingFormat
    /\ call.paras[1][1].written # {}
    /\ "underline" \notin call.paras[1][1].written
    /\ call.orig[1][2].text # <<>>
    /\ call.paras[1][2].text = <<>>

\* C19: when the non-empty search text occurs in no paragraph of the
\* document, the call never enters the loop, counts nothing, returns 0 and
\* leaves the text and the attributes of every run as they were.
C19_AbsentSearchChangesNothing ==
    (/\ call.pc # "none"
     /\ call.search_text # <<>>
     /\ \A p \in DOMAIN call.orig : ~Occurs(OrigText(p), call.search_text)) =>
        /\ call.paras = call.orig
        /\ call.total = 0
        /\ call.pc # "loop"
        /\ \A p \in DOMAIN call.counts : call.counts[p] \in {-1, 0}

\* C19 witness: the call has returned from a document with tables that
\* does not hold the search text.
C19_Witness ==
    /\ call.pc = "done"
    /\ call.shape = NestedShape
    /\ call.search_text = <<"b", "b">>
    /\ Len(call.visited) = 6

\* every paragraph of a shape: those of the body and of every cell
AllParagraphs(shape) ==
    Range(shape.body)
        \cup UNION {Range(shape.cells[c].paragraphs) : c \in DOMAIN shape.cells}

RECURSIVE SumOver(_, _)
SumOver(f, S) ==
    IF S = {} THEN 0
    ELSE LET x == CHOOSE y \in S : TRUE
         IN  f[x] + SumOver(f, S \ {x})

DocText(document) == [i \in 1..Len(document) |-> Concat(document[i])]

\* the rules by the book: each rule scans every paragraph text the earlier
\* rules have left; the counts are summed
RECURSIVE ScanRules(_, _)
ScanRules(text_list, rules) ==
    IF rules = <<>> THEN [texts |-> text_list, count |-> 0]
    ELSE LET search_text == Head(rules)[1]
             replace_with == Head(rules)[2]
             after == [i \in 1..Len(text_list) |->
                          ScanReplace(text_list[i], search_text, replace_with)]
             here == SumOver([i \in 1..Len(text_list) |->
                                 ScanCount(text_list[i], search_text)],
                             1..Len(text_list))
             rest == ScanRules(after, Tail(rules))
         IN  [texts |-> rest.texts, count |-> here + rest.count]

\* C21: the rule loop of a task (and replace_multiple, the same loop)
\* applies each rule to the whole document as the earlier rules left it,
\* and the total is the sum of the rules' counts: the result of a task that
\* alone worked on its document carries that sum, and the saved document
\* has the texts the rules give when applied one after the other.
C21_RulesInOrderOnWholeDocument ==
    \A t \in Tasks :
        (/\ task[t].pc = "done"
         /\ task[t].res.success
         /\ Cardinality(TasksOn(task[t].path)) = 1) =>
            LET byTheBook == ScanRules(DocText(InitialContent(task[t].path)), Rules)
            IN  /\ task[t].res.replacements = byTheBook.count
                /\ DocText(files[task[t].path]) = byTheBook.texts

\* C21 witness: in the document "ab" the first rule made "c" and the second
\* rule replaced that "c": two replacements, the text is "dd".
C21_Witness ==
    \E t \in Tasks :
        /\ task[t].pc = "done"
        /\ task[t].path = "B"
        /\ task[t].res.success
        /\ task[t].res.replacements = 2
        /\ DocText(files["B"]) = << <<"d", "d">> >>

\* the last step was a call of replace_text, replace_multiple or save on a
\* processor without a document
UnloadedCall ==
    /\ mainPc = "processor"
    /\ ~proc.loaded
    /\ proc'.ops = proc.ops + 1
    /\ proc'.ret.op \in {"replace_text", "replace_multiple", "save"}

\* C22: on a processor without a loaded document replace_text and
\* replace_multiple return 0 and save returns False; the call does not
\* raise, and it leaves the processor (document, replacement_count) and
\* every file as they were.
C22_UnloadedProcessorDoesNothing ==
    [][UnloadedCall =>
        /\ ~proc'.ret.raised
        /\ proc'.ret.op \in {"replace_text", "replace_multiple"} =>
               proc'.ret.count = 0
        /\ proc'.ret.op = "save" => ~proc'.ret.ok
        /\ proc'.loaded = proc.loaded
        /\ proc'.doc = proc.doc
        /\ proc'.replacement_count = proc.replacement_count
        /\ proc'.doc_path = proc.doc_path
        /\ UNCHANGED <<files, bdir, inodes>>]_vars

\* C22 witness: a processor that replaced something and was closed; the
\* replace_text called on it afterwards returned 0 and left the old count.
C22_Witness ==
    /\ mainPc = "processor"
    /\ ~proc.loaded
    /\ proc.ret.op = "replace_text"
    /\ proc.ret.count = 0
    /\ proc.replacement_count > 0

\* the positions of the result log that hold successful results
SuccessfulAt == {i \in 1..Len(results) : results[i].success}

\* the positions of the result log that hold failed results
FailedAt == {i \in 1..Len(results) : ~results[i].success}

\* the sequence seq is the log restricted to the positions in at, in order
IsLogAt(seq, at) ==
    /\ Len(seq) = Cardinality(at)
    /\ \A k \in 1..Len(seq) :
           \E i \in at : /\ seq[k] = results[i]
                         /\ Cardinality({j \in at : j < i}) = k - 1

\* C23: whatever the result log holds, get_summary reports the number of
\* logged results as the total, successful and failed add up to the total,
\* total_replacements is the sum of the replacement counts of the results,
\* success_rate is successful / total (0 for an empty log), and
\* get_successful_results and get_failed_results split the log: each logged
\* result is in exactly one of them.
C23_SummaryArithmetic ==
    LET summary == get_summary(results)
    IN  /\ summary.total_files = Len(results)
        /\ summary.successful = Cardinality(SuccessfulAt)
        /\ summary.failed = Cardinality(FailedAt)
        /\ summary.successful + summary.failed = summary.total_files
        /\ summary.total_replacements =
               SumOver([i \in 1..Len(results) |-> results[i].replacements],
                       1..Len(results))
        /\ IF Len(results) = 0
           THEN summary.success_rate.num = 0
           ELSE summary.success_rate.num * Len(results) =
                    Cardinality(SuccessfulAt) * summary.success_rate.den
        /\ summary.success_rate.den > 0
        /\ IsLogAt(get_successful_results(results), SuccessfulAt)
        /\ IsLogAt(get_failed_results(results), FailedAt)

\* C23 witness: a returned log with a failed result and a successful result
\* with replacements; the rate is one half.
C23_Witness ==
    /\ mainPc = "returned"
    /\ \E i, j \in 1..Len(results) :
        /\ ~results[i].success
        /\ results[j].success /\ results[j].replacements > 0
    /\ get_summary(results).success_rate = [num |-> 1, den |-> 2]
    /\ get_summary(results).total_replacements > 0

\* C24: a call of process_documents starts by emptying the result log and
\* clearing the stop event.  On a BatchProcessor that holds a result of an
\* earlier batch and whose stop event is still set, the log of the new call
\* never shows the earlier result; the stop event is clear once the call has
\* started and is set again only by a stop() made during the call, and a
\* task is cancelled only while it is set.
C24_PerCallStateReset ==
    /\ [](mainPc # "idle" => ~InResults(EarlierResult))
    /\ [](\A t \in Tasks : task[t].sawStop => stopEvent)
    /\ [][(mainPc = "idle" /\ mainPc' # "idle") =>
              (results' = <<>> /\ ~stopEvent')]_vars
    /\ [][(mainPc # "idle" /\ ~stopEvent /\ stopEvent') => Stop]_vars

\* C24 witness: the call that found the earlier result and the set stop
\* event has returned; no task was cancelled, every document was processed
\* and the list holds the results of this call only.
C24_Witness ==
    /\ mainPc = "returned"
    /\ ~stopEvent
    /\ Len(paths) = MaxPaths
    /\ Len(results) = Len(paths)
    /\ \A t \in Tasks : ~task[t].sawStop /\ task[t].res.success
    /\ Len(task) = MaxPaths
    /\ ~InResults(EarlierResult)

\* C25: create_backup never replaces a file that exists under the final
\* name it chose: a caller that leaves its os.replace step while the final
\* name is taken has left the file under that name alone, has removed its
\* temp file and goes on to draw a new suffix.
C25_ExistingBackupNeverReplaced ==
    [][\A t \in Tasks :
          LET final == BackupName(task[t].path, task[t].uid)
              tmp == TmpName(task[t].path, task[t].uid)
          IN  (/\ Direct
               /\ task[t].pc = "bk_replace"
               /\ task'[t].pc # "bk_replace"
               /\ bdir[final] # 0) =>
                  /\ bdir'[final] = bdir[final]
                  /\ bdir'[tmp] = 0
                  /\ task'[t].pc = "bk_begin"]_vars

\* C26: in a batch with create_backup set, the backup reported for a
\* document the batch has saved was completed before any save of that
\* document by the batch: the file under the reported path holds the content
\* the document had when the batch began.
C26_BackupHoldsOriginal ==
    \A t \in Tasks :
        (/\ ~Direct
         /\ createBackup
         /\ task[t].pc = "done"
         /\ task[t].res.success) =>
            /\ task[t].res.backup_path # NoPath
            /\ bdir[task[t].res.backup_path] # 0
            /\ inodes[bdir[task[t].res.backup_path]] =
                   CompleteFile(InitialContent(task[t].path))

\* C27: process_documents returns only after every task it submitted has
\* finished, also after stop(): once it has returned no task is running and
\* no document, backup file or task changes any more; and with threads that
\* keep running, so that every task terminates, it does return.
C27_ReturnsAfterAllTasks ==
    /\ [](Returned0 => \A t \in Tasks : task[t].pc = "done")
    /\ [][Returned0 => UNCHANGED <<task, files, bdir, inodes>>]_vars
    /\ <>Returned0

\* C27 witness: the call has returned after a stop() that made it leave the
\* loop early, with a task that was queued at that moment and has finished
\* as cancelled before the return.
C27_Witness ==
    /\ Returned0
    /\ stopEvent
    /\ collected # Tasks
    /\ \E t \in Tasks : task[t].sawStop /\ task[t].pc = "done"
    /\ \E t \in Tasks : task[t].own.save = "ok"

\* C28: a task's result is successful exactly when the task's save of the
\* document succeeded; a failed result carries the replacement count 0, also
\* when the rules had been applied in memory before the save failed; so
\* total_replacements of the summary is the sum over the successful results.
C28_OnlySavedReplacementsCounted ==
    /\ \A t \in Tasks :
        (~Direct /\ task[t].pc = "done") =>
            /\ task[t].res.success <=> task[t].own.save = "ok"
            /\ ~task[t].res.success => task[t].res.replacements = 0
    /\ \A i \in 1..Len(results) :
        ~results[i].success => results[i].replacements = 0
    /\ get_summary(results).total_replacements =
           SumOver([i \in 1..Len(results) |->
                       IF results[i].success THEN results[i].replacements ELSE 0],
                   1..Len(results))

\* C28 witness: the call has returned; one task replaced text in memory and
\* failed to save, its result counts nothing, another task saved its
\* replacements and the summary counts those.
C28_Witness ==
    /\ Returned0
    /\ \E t1, t2 \in Tasks :
        /\ task[t1].own.replace = "ok"
        /\ task[t1].own.save = "fail"
        /\ RulesApplied[InitialContent(task[t1].path)].count > 0
        /\ task[t1].res.replacements = 0
        /\ InResults(task[t1].res)
        /\ task[t2].own.save = "ok"
        /\ InResults(task[t2].res)
        /\ get_summary(results).total_replacements = task[t2].res.replacements
        /\ task[t2].res.replacements > 0

\* C29: when result_callback or progress_callback raises while the result
\* of a task is reported, the result log still holds exactly one result for
\* the document of that task, and no progress_callback invocation is given
\* a processed count above the number of valid paths.
C29_RaisingCallbackKeepsLogAndCount ==
    /\ \A t \in collected :
        Cardinality(TasksOn(task[t].path)) = 1 =>
            Cardinality(ResultsFor(task[t].path)) = 1
    /\ \A k \in 1..Len(progressLog) : progressLog[k][1] <= ValidCount

\* the step changes the result log or invokes a callback
Reports ==
    \/ results' # results
    \/ resultLog' # resultLog
    \/ progressLog' # progressLog

\* C30: every append to the result log and every invocation of
\* result_callback and progress_callback is a step of the thread that called
\* process_documents, taken between its call and its return, and never a
\* step of a worker: such a step changes no task, document or backup file,
\* and no step of a task touches the log, the count or a callback.
C30_OnlyCallerReports ==
    /\ [][Reports =>
            /\ mainPc \in {"idle", "report", "collect"}
            /\ UNCHANGED <<task, files, bdir, inodes>>]_vars
    /\ [][\A t \in Tasks :
            TaskStep(t) =>
                UNCHANGED <<results, resultLog, progressLog, processedCount>>]_vars

\* C30 witness: the calling thread has appended and reported the result of
\* one task while another task is at work in its worker thread.
C30_Witness ==
    /\ mainPc = "collect"
    /\ Len(results) > 0
    /\ Len(resultLog) > 0
    /\ Len(progressLog) > 0
    /\ \E t1, t2 \in Tasks :
        /\ t1 \in collected
        /\ InResults(task[t1].res)
        /\ task[t2].pc = "replace"

====
